---- MODULE Spec2Model ----
(***************************************************************************)
(* The merge-request review pipeline: merge_diffs.py, extract_mr_context.py,*)
(* review_chunk.py and summarize_reviews.py.                                *)
(*                                                                          *)
(* A Python str is a sequence of one-character strings.  A value that is    *)
(* not a str (None, an absent file) is a one-element sequence holding a     *)
(* longer string, so that it differs from every str.                        *)
(*                                                                          *)
(* The text of a file, and a text put into a prompt, is held in the state   *)
(* in pages: Pages(text) is the text cut into pieces of PageSize characters,*)
(* Text(pages) is the text again (what read_text returns).                  *)
(***************************************************************************)
EXTENDS Integers, Sequences, FiniteSets, TLC

None == <<"None">>
NoFile == <<"NoFile">>

NL == "\n"

PageSize == 500

PagesOf(t) ==
    [p \in 1..((Len(t) + PageSize - 1) \div PageSize) |->
        SubSeq(t, (p - 1) * PageSize + 1,
               IF p * PageSize < Len(t) THEN p * PageSize ELSE Len(t))]

\* the pages of text, text being evaluated once
Pages(text) == CHOOSE pages \in { PagesOf(t) : t \in {text} } : TRUE

\* Path.read_text(): the pages one after the other
Text(pages) ==
    IF Len(pages) = 0 THEN <<>>
    ELSE LET n == (Len(pages) - 1) * PageSize + Len(pages[Len(pages)])
             chars == [i \in 1..n |->
                          pages[((i - 1) \div PageSize) + 1]
                               [((i - 1) % PageSize) + 1]]
         IN  SubSeq(chars, 1, n)

Min(S) == CHOOSE x \in S : \A y \in S : x <= y

\* s[i-1:].startswith(lit)
StartsWithAt(s, i, lit) ==
    /\ i >= 1
    /\ i + Len(lit) - 1 <= Len(s)
    /\ SubSeq(s, i, i + Len(lit) - 1) = lit

\* s.split(c): the pieces of s between its occurrences of the character c.
CharsFrom(s, c, from) == {i \in from..Len(s) : s[i] = c}

RECURSIVE SplitFrom(_, _, _)
SplitFrom(s, c, from) ==
    LET at == CharsFrom(s, c, from)
    IN  IF at = {} THEN <<SubSeq(s, from, Len(s))>>
        ELSE <<SubSeq(s, from, Min(at) - 1)>> \o SplitFrom(s, c, Min(at) + 1)

Split(s, c) == SplitFrom(s, c, 1)

\* c.join(ls)
RECURSIVE JoinWith(_, _)
JoinWith(ls, c) ==
    IF Len(ls) = 0 THEN <<>>
    ELSE IF Len(ls) = 1 THEN ls[1]
    ELSE ls[1] \o <<c>> \o JoinWith(Tail(ls), c)

\* the lines of a text.  No pattern of the sources matches across a newline
\* ("." excludes it, and the patterns' literals hold none), so each pattern
\* is applied line by line.
Lines(s) == Split(s, NL)

Join(ls) == JoinWith(ls, NL)

RECURSIVE Flatten(_)
Flatten(ss) == IF Len(ss) = 0 THEN <<>> ELSE ss[1] \o Flatten(Tail(ss))

\* the literals of the patterns
DIFF_GIT_A == <<"d","i","f","f"," ","-","-","g","i","t"," ","a","/">>
SP_B == <<" ","b","/">>
MINUS_A == <<"-","-","-"," ","a","/">>
PLUS_B == <<"+","+","+"," ","b","/">>
SLASH == <<"/">>

(***************************************************************************)
(* merge_diffs.py: add_project_prefix                                       *)
(***************************************************************************)

\* variant: the pattern ends with '$', so the b path must equal the a path
HeaderGroupAt_anchored(line, i) ==
    IF ~StartsWithAt(line, i, DIFF_GIT_A) THEN -1
    ELSE LET g0 == i + Len(DIFF_GIT_A)
             ok == {j \in 0..(Len(line) - g0 + 1) :
                      /\ StartsWithAt(line, g0 + j, SP_B)
                      /\ StartsWithAt(line, g0 + j + Len(SP_B),
                                      SubSeq(line, g0, g0 + j - 1))
                      /\ g0 + j + Len(SP_B) + j = Len(line) + 1}
         IN  IF ok = {} THEN -1 ELSE Min(ok)

\* r'diff --git a/(.*?) b/\1' tried at position i of a line: the length of
\* group 1 (the lazy group takes the shortest text after which " b/" and
\* the same text again follow), or -1 when the pattern does not match there.
HeaderGroupAt(line, i) ==
    IF ~StartsWithAt(line, i, DIFF_GIT_A) THEN -1
    ELSE LET g0 == i + Len(DIFF_GIT_A)
             ok == {j \in 0..(Len(line) - g0 + 1) :
                      /\ StartsWithAt(line, g0 + j, SP_B)
                      /\ StartsWithAt(line, g0 + j + Len(SP_B),
                                      SubSeq(line, g0, g0 + j - 1))}
         IN  IF ok = {} THEN -1 ELSE Min(ok)

\* variant: a path that already starts with the project name is kept
replace_path_once(original_path, project_name) ==
    IF StartsWithAt(original_path, 1, project_name \o SLASH)
    THEN DIFF_GIT_A \o original_path \o SP_B \o original_path
    ELSE DIFF_GIT_A \o project_name \o SLASH \o original_path
             \o SP_B \o project_name \o SLASH \o original_path

replace_path(original_path, project_name) ==
    DIFF_GIT_A \o project_name \o SLASH \o original_path
        \o SP_B \o project_name \o SLASH \o original_path

\* re.sub of the header pattern over one line, from position `from` on:
\* the leftmost match is replaced and the scan goes on after it.
RECURSIVE SubHeader(_, _, _)
SubHeader(line, from, project_name) ==
    LET hits == {i \in from..Len(line) : HeaderGroupAt(line, i) >= 0}
    IN  IF hits = {} THEN SubSeq(line, from, Len(line))
        ELSE LET i == Min(hits)
                 j == HeaderGroupAt(line, i)
                 g0 == i + Len(DIFF_GIT_A)
                 after == g0 + j + Len(SP_B) + j
             IN  SubSeq(line, from, i - 1)
                     \o replace_path(SubSeq(line, g0, g0 + j - 1), project_name)
                     \o SubHeader(line, after, project_name)

\* variant: the replacement template lacks the "/" after the project name
SubMarked_noslash(line, lit, project_name) ==
    IF StartsWithAt(line, 1, lit) /\ Len(line) > Len(lit)
    THEN lit \o project_name \o SubSeq(line, Len(lit) + 1, Len(line))
    ELSE line

\* re.sub(r'^--- a/(.+)$', rf'--- a/{project_name}/\1', ..., re.MULTILINE)
\* and the same for '+++ b/', on one line: lit is "--- a/" or "+++ b/".
SubMarked(line, lit, project_name) ==
    IF StartsWithAt(line, 1, lit) /\ Len(line) > Len(lit)
    THEN lit \o project_name \o SLASH \o SubSeq(line, Len(lit) + 1, Len(line))
    ELSE line

add_project_prefix(diff_text, project_name) ==
    LET MapLines(text, Op(_)) ==
            LET ls == Lines(text) IN Join([k \in 1..Len(ls) |-> Op(ls[k])])
        H(line) == SubHeader(line, 1, project_name)
        M(line) == SubMarked(line, MINUS_A, project_name)
        Q(line) == SubMarked(line, PLUS_B, project_name)
        result1 == MapLines(diff_text, H)
        result2 == MapLines(result1, M)
    IN  MapLines(result2, Q)

(***************************************************************************)
(* extract_mr_context.py: extract_changed_files                             *)
(***************************************************************************)

\* r'diff --git a/(.*?) b/' tried at position i of a line: the length of
\* group 1 (the text up to the first " b/"), or -1.
PathGroupAt(line, i) ==
    IF ~StartsWithAt(line, i, DIFF_GIT_A) THEN -1
    ELSE LET g0 == i + Len(DIFF_GIT_A)
             ok == {j \in 0..(Len(line) - g0 + 1) :
                      StartsWithAt(line, g0 + j, SP_B)}
         IN  IF ok = {} THEN -1 ELSE Min(ok)

PathGroup(line, i) ==
    SubSeq(line, i + Len(DIFF_GIT_A),
           i + Len(DIFF_GIT_A) + PathGroupAt(line, i) - 1)

\* variant: the pattern lacks '^', so a header quoted inside a line counts
RECURSIVE ChangedOfLines_unanchored(_)
ChangedOfLines_unanchored(ls) ==
    IF Len(ls) = 0 THEN <<>>
    ELSE LET hits == {i \in 1..Len(ls[1]) : PathGroupAt(ls[1], i) >= 0}
         IN  (IF hits # {} THEN <<PathGroup(ls[1], Min(hits))>> ELSE <<>>)
                 \o ChangedOfLines_unanchored(Tail(ls))

\* re.finditer with '^' under re.MULTILINE: at most one match per line, at
\* its start; files.append(match.group(1)) in document order.
RECURSIVE ChangedOfLines(_)
ChangedOfLines(ls) ==
    IF Len(ls) = 0 THEN <<>>
    ELSE (IF PathGroupAt(ls[1], 1) >= 0 THEN <<PathGroup(ls[1], 1)>> ELSE <<>>)
             \o ChangedOfLines(Tail(ls))

extract_changed_files(diff_text) == ChangedOfLines(Lines(diff_text))

(***************************************************************************)
(* review_chunk.py: extract_file_from_diff                                  *)
(***************************************************************************)

\* re.search without '^': the leftmost match anywhere in the text.
RECURSIVE FirstOfLines(_)
FirstOfLines(ls) ==
    IF Len(ls) = 0 THEN None
    ELSE LET hits == {i \in 1..Len(ls[1]) : PathGroupAt(ls[1], i) >= 0}
         IN  IF hits # {} THEN PathGroup(ls[1], Min(hits))
             ELSE FirstOfLines(Tail(ls))

extract_file_from_diff(diff_text) == FirstOfLines(Lines(diff_text))

(***************************************************************************)
(* review_chunk.py: load_original                                           *)
(*                                                                          *)
(* The disk is a function from the normalised path of each existing file    *)
(* to its content.                                                          *)
(***************************************************************************)

IndexError == <<"IndexError">>

NOT_FOUND_OPEN ==
    <<"<","F","I","L","E"," ","N","O","T"," ","F","O","U","N","D",":"," ">>

\* variant: a missing file resolves to the empty text
NotFound_blank(file_path) == <<>>

NotFound(file_path) == NOT_FOUND_OPEN \o file_path \o <<">">>

\* variant: the split at the last "/" (rsplit)
Split1_last(s) ==
    LET at == CharsFrom(s, "/", 1)
        last == CHOOSE i \in at : \A j \in at : j <= i
    IN  IF at = {} THEN <<s>>
        ELSE <<SubSeq(s, 1, last - 1), SubSeq(s, last + 1, Len(s))>>

\* file_path.split('/', 1)
Split1(s) ==
    LET at == CharsFrom(s, "/", 1)
    IN  IF at = {} THEN <<s>>
        ELSE <<SubSeq(s, 1, Min(at) - 1), SubSeq(s, Min(at) + 1, Len(s))>>

\* pathlib: the components of a path (empty and "." components are dropped)
IsPart(c) == c # <<>> /\ c # <<".">>

PathParts(p) == SelectSeq(Split(p, "/"), IsPart)

IsAbs(p) == Len(p) > 0 /\ p[1] = "/"

\* variant: the first component of the path
PathName_first(p) ==
    LET cs == PathParts(p) IN IF Len(cs) = 0 THEN <<>> ELSE cs[1]

\* Path(p).name
PathName(p) ==
    LET cs == PathParts(p) IN IF Len(cs) = 0 THEN <<>> ELSE cs[Len(cs)]

\* str(Path(root) / rel): an absolute rel replaces root
PathJoin(root, rel) ==
    LET abs == IsAbs(rel) \/ IsAbs(root)
        cs == IF IsAbs(rel) THEN PathParts(rel)
              ELSE PathParts(root) \o PathParts(rel)
    IN  (IF abs THEN SLASH ELSE <<>>) \o JoinWith(cs, "/")

\* variant: the multi-project loop does not compare the root's name
RECURSIVE TryRoots_anyroot(_, _, _, _)
TryRoots_anyroot(project_paths, project_prefix, relative_path, disk) ==
    IF Len(project_paths) = 0 THEN None
    ELSE LET full_path == PathJoin(project_paths[1], relative_path)
         IN  IF full_path \in DOMAIN disk THEN Text(disk[full_path])
             ELSE TryRoots_anyroot(Tail(project_paths), project_prefix,
                                   relative_path, disk)

\* the loop of either branch over the roots left to try: the content of the
\* first existing file, or None when the loop ends without a return
RECURSIVE TryRoots(_, _, _, _)
TryRoots(project_paths, project_prefix, relative_path, disk) ==
    IF Len(project_paths) = 0 THEN None
    ELSE LET project_path == project_paths[1]
             full_path == PathJoin(project_path, relative_path)
         IN  IF /\ (project_prefix = None \/ PathName(project_path) = project_prefix)
                /\ full_path \in DOMAIN disk
             THEN Text(disk[full_path])
             ELSE TryRoots(Tail(project_paths), project_prefix, relative_path, disk)

\* variant: a reference without "/" is looked up as it is (parts[-1])
load_original_whole(project_roots, file_path, disk) ==
    LET project_paths == Split(project_roots, ":")
        parts == Split1(file_path)
    IN  IF Len(parts) = 2 /\ Len(project_paths) > 1
        THEN LET found == TryRoots(project_paths, parts[1], parts[2], disk)
             IN  IF found # None THEN found ELSE NotFound(file_path)
        ELSE LET found == TryRoots(project_paths, None, parts[Len(parts)], disk)
             IN  IF found # None THEN found ELSE NotFound(file_path)

load_original(project_roots, file_path, disk) ==
    LET project_paths == Split(project_roots, ":")
        parts == Split1(file_path)
    IN  IF Len(parts) = 2 /\ Len(project_paths) > 1
        THEN LET found == TryRoots(project_paths, parts[1], parts[2], disk)
             IN  IF found # None THEN found ELSE NotFound(file_path)
        ELSE IF Len(parts) < 2 THEN IndexError
        ELSE LET found == TryRoots(project_paths, None, parts[2], disk)
             IN  IF found # None THEN found ELSE NotFound(file_path)

(***************************************************************************)
(* merge_diffs.py: merge_diffs                                              *)
(***************************************************************************)

PROJECT_OPEN ==
    <<NL,"#","#","#"," ","P","R","O","J","E","C","T",":"," ">>

PROJECT_CLOSE ==
    <<" ","#","#","#",NL>>

\* the index of the first diff file that does not exist, 0 when all exist
\* (zip pairs the files with the names, up to the shorter list)
FirstMissing(diff_files, project_names) ==
    LET n == IF Len(diff_files) < Len(project_names)
             THEN Len(diff_files) ELSE Len(project_names)
        gone == {k \in 1..n : diff_files[k] = NoFile}
    IN  IF gone = {} THEN 0 ELSE Min(gone)

\* the list `merged`: for each diff the separator, then the prefixed diff
RECURSIVE MergedParts(_, _)
MergedParts(diff_files, project_names) ==
    IF Len(diff_files) = 0 \/ Len(project_names) = 0 THEN <<>>
    ELSE << PROJECT_OPEN \o project_names[1] \o PROJECT_CLOSE,
            add_project_prefix(diff_files[1], project_names[1]) >>
             \o MergedParts(Tail(diff_files), Tail(project_names))

\* the result of merge_diffs when every diff file exists
merge_diffs(diff_files, project_names) ==
    Join(MergedParts(diff_files, project_names))

(***************************************************************************)
(* The truncations of the three prompt-building stages                      *)
(***************************************************************************)

\* s[:n]
FirstChars(s, n) == IF n >= Len(s) THEN s ELSE SubSeq(s, 1, n)

\* s[-n:], n > 0
LastChars(s, n) == IF n >= Len(s) THEN s ELSE SubSeq(s, Len(s) - n + 1, Len(s))

MAX_DIFF_CHARS == 60000

\* extract_mr_context.py main: "Truncate if too large"
TruncateDiff(text) ==
    IF Len(text) > MAX_DIFF_CHARS THEN FirstChars(text, MAX_DIFF_CHARS) ELSE text

MAX_ORIGINAL_SIZE == 50000
IMPORTS_SIZE == 5000

TRUNCATION_MARKER ==
    <<NL,NL,"[",".",".","."," ","m","i","d","d","l","e"," ","s","e","c","t",
      "i","o","n"," ","t","r","u","n","c","a","t","e","d"," ",".",".",".",
      "]",NL,NL>>

\* the truncation with the boundary at >= instead of >
TruncateOriginal_inclusive(text) ==
    IF Len(text) >= MAX_ORIGINAL_SIZE
    THEN FirstChars(text, IMPORTS_SIZE) \o TRUNCATION_MARKER
             \o LastChars(text, MAX_ORIGINAL_SIZE - IMPORTS_SIZE)
    ELSE text

\* review_chunk.py main: "Smart truncation for large files"
TruncateOriginal(text) ==
    IF Len(text) > MAX_ORIGINAL_SIZE
    THEN FirstChars(text, IMPORTS_SIZE) \o TRUNCATION_MARKER
             \o LastChars(text, MAX_ORIGINAL_SIZE - IMPORTS_SIZE)
    ELSE text

MAX_CHARS == 250000

\* the cap that keeps the first MAX_CHARS characters
TruncateReviews_head(text) ==
    IF Len(text) > MAX_CHARS THEN FirstChars(text, MAX_CHARS) ELSE text

\* summarize_reviews.py main: "Hard cap context"
TruncateReviews(text) ==
    IF Len(text) > MAX_CHARS THEN LastChars(text, MAX_CHARS) ELSE text

(***************************************************************************)
(* load_mr_context (review_chunk.py, summarize_reviews.py)                  *)
(*                                                                          *)
(* The results directory OUT_DIR is [exists, files]: whether it exists, and *)
(* the function from the names of its files to their contents.              *)
(***************************************************************************)

NoFiles == [name \in {} |-> <<>>]

NoDir == [exists |-> FALSE, files |-> NoFiles]

MR_CONTEXT_NAME ==
    <<"m","r","_","c","o","n","t","e","x","t",".","m","d">>

NO_CONTEXT_REVIEW ==
    <<"M","R"," ","c","o","n","t","e","x","t"," ","n","o","t"," ","a","v",
      "a","i","l","a","b","l","e"," ","-"," ","r","e","v","i","e","w","i",
      "n","g"," ","f","i","l","e"," ","i","n"," ","i","s","o","l","a","t",
      "i","o","n",".">>

NO_CONTEXT_SUMMARY ==
    <<"M","R"," ","c","o","n","t","e","x","t"," ","n","o","t"," ","a","v",
      "a","i","l","a","b","l","e",".">>

\* MR_CONTEXT_FILE.exists()
HasContext(dir) == dir.exists /\ MR_CONTEXT_NAME \in DOMAIN dir.files

load_mr_context(dir, fallback) ==
    IF HasContext(dir) THEN Text(dir.files[MR_CONTEXT_NAME]) ELSE fallback

(***************************************************************************)
(* summarize_reviews.py: the reviews of the results directory               *)
(***************************************************************************)

DOT_MD == <<".","m","d">>

FILE_OPEN == <<NL,"#"," ","F","i","l","e",":"," ">>

\* the characters of file names, in code point order
ORD ==
    <<".","0","1","2","3","4","5","6","7","8","9","A","B","C","D","E","F",
      "G","H","I","J","K","L","M","N","O","P","Q","R","S","T","U","V","W",
      "X","Y","Z","_","a","b","c","d","e","f","g","h","i","j","k","l","m",
      "n","o","p","q","r","s","t","u","v","w","x","y","z">>

Ord(c) == CHOOSE k \in 1..Len(ORD) : ORD[k] = c

\* s < t as Python compares str: by the first differing character, a
\* proper prefix first
Less(s, t) ==
    \E k \in 1..Len(t) :
        /\ k <= Len(s) + 1
        /\ SubSeq(s, 1, k - 1) = SubSeq(t, 1, k - 1)
        /\ (k = Len(s) + 1 \/ Ord(s[k]) < Ord(t[k]))

\* variant: the names in descending order
RECURSIVE Sorted_descending(_)
Sorted_descending(names) ==
    IF names = {} THEN <<>>
    ELSE LET first == CHOOSE n \in names : \A m \in names \ {n} : Less(m, n)
         IN  <<first>> \o Sorted_descending(names \ {first})

\* sorted(names)
RECURSIVE Sorted(_)
Sorted(names) ==
    IF names = {} THEN <<>>
    ELSE LET first == CHOOSE n \in names : \A m \in names \ {n} : Less(n, m)
         IN  <<first>> \o Sorted(names \ {first})

\* name matches the glob "*.md"
IsMd(name) ==
    Len(name) >= Len(DOT_MD)
        /\ SubSeq(name, Len(name) - Len(DOT_MD) + 1, Len(name)) = DOT_MD

\* the names whose files the loop appends to `reviews`, in its order
ReviewNames(dir) ==
    LET IsReview(name) == name # MR_CONTEXT_NAME
    IN  SelectSeq(Sorted({n \in DOMAIN dir.files : IsMd(n)}), IsReview)

\* the list `reviews`
Reviews(dir) ==
    LET names == ReviewNames(dir)
    IN  [k \in 1..Len(names) |->
            FILE_OPEN \o names[k] \o <<NL>> \o Text(dir.files[names[k]]) \o <<NL>>]

(***************************************************************************)
(* State                                                                    *)
(***************************************************************************)
VARIABLES
    \* inputs: what a run finds when it starts; no action changes them
    sections,       \* the <<a path, b path>> of each section of the diff
    tail,           \* the last line of the diff
    project_name,   \* add_project_prefix: its project_name argument
    roots,          \* the project roots in order, each [name, slash]
    tree,           \* the files on disk, each <<root index, relative path>>
    project_roots,  \* --projects: the roots, joined with ":"
    disk,           \* the files of the project trees: path -> pages
    stage,          \* the script that runs
    config,         \* whether config.yml exists
    diff_file,      \* the file of --diff or --chunk: its pages, or NoFile
    results_dir,    \* OUT_DIR: [exists, files: name -> pages]
    diffs_arg,      \* --diffs: the content of each file, or NoFile
    names_arg,      \* --names
    reply,          \* what the completion endpoint does with a request
    out_before,     \* the content of the output path before the run, or NoFile
    \* the program
    pc,             \* where the run is
    exit,           \* the return value of main(), or the exception raised
    log,            \* the records written to the log, each <<level, message>>
    requests,       \* the number of requests sent to the endpoint
    prompt,         \* the values substituted into the prompt template,
                    \* the texts among them in pages
    completion,     \* what call_llm returned
    out_file,       \* the content of the output path, or NoFile
    diff_text,      \* the text add_project_prefix is applied to
    passes,         \* how many times add_project_prefix was applied to diff_text
    changed_files,  \* the local changed_files, None before the call
    file_path,      \* the local file_path, None when unset
    original        \* LoadOriginal: what load_original returned, None before

inputs == <<sections, tail, project_name, roots, tree, project_roots, disk,
            stage, config, diff_file, results_dir, diffs_arg, names_arg,
            reply, out_before>>
runVars == <<pc, exit, log, requests, prompt, completion, out_file>>
locals == <<diff_text, passes, changed_files, file_path, original>>
vars == <<inputs, runVars, locals>>

(***************************************************************************)
(* Inputs                                                                   *)
(***************************************************************************)
MaxSections == 2
MaxPasses == 2

\* paths: plain, one a textual prefix of another, in a directory, and one
\* holding " b/" (a file "a" in a directory "a b")
Paths == { <<"f">>, <<"f","2">>, <<"d","/","f">>, <<"a"," ","b","/","a">> }
Projects == { <<"p">>, <<"b","e">> }

Header(a, b) == DIFF_GIT_A \o a \o SP_B \o b

\* one section of a diff: header, old and new file lines, one added line
SectionLines(ab) ==
    << Header(ab[1], ab[2]), MINUS_A \o ab[1], PLUS_B \o ab[2], <<"+","x">> >>

\* the last line: empty (the text ends with a newline), or a context line
\* that quotes a header
Tails == { <<>>, <<" ">> \o Header(<<"f">>, <<"f">>) }

SectionSeqs == UNION { [1..n -> Paths \X Paths] : n \in 0..MaxSections }

DiffOf(secs, last) ==
    Join(Flatten([k \in 1..Len(secs) |-> SectionLines(secs[k])]) \o <<last>>)

\* the index, among the lines of the diff, of line n (1..4) of section k
LineOf(k, n) == 4 * (k - 1) + n

Digits == <<"1","2","3","4","5","6","7","8","9">>

\* n characters of filler, no two neighbours alike
Pad(n) == [i \in 1..n |-> Digits[(i % 7) + 1]]

NoDisk == <<>>

MaxRoots == 2

\* root i is the directory /r<i>/<name>, written with or without a final "/"
RootDir(i, r) == <<"/","r">> \o <<Digits[i]>> \o SLASH \o r.name

RootArg(i, r) == RootDir(i, r) \o (IF r.slash THEN SLASH ELSE <<>>)

RootSeqs ==
    UNION { [1..n -> [name : Projects, slash : BOOLEAN]] : n \in 1..MaxRoots }

RootsArg(rs) == JoinWith([i \in 1..Len(rs) |-> RootArg(i, rs[i])], ":")

Rels == { <<"f">>, <<"d","/","f">> }

\* the first characters of the file at relative path rel under root i
Content(i, rel) == <<"#">> \o <<Digits[i]>> \o <<":">> \o rel

\* the disk that holds the files `files`, each of Len(Content) + n characters
DiskOf(rs, files, n) ==
    LET paths == { RootDir(e[1], rs[e[1]]) \o SLASH \o e[2] : e \in files }
        Entry(path) == CHOOSE e \in files :
                           RootDir(e[1], rs[e[1]]) \o SLASH \o e[2] = path
    IN  [path \in paths |->
            Pages(Content(Entry(path)[1], Entry(path)[2]) \o Pad(n))]

\* references: <project>/<relative path>, also for a project no root is
\* named after, and a bare file name
RefPrefixes == Projects \cup { <<"z","z">> }
Refs == { pre \o SLASH \o rel : pre \in RefPrefixes, rel \in Rels } \cup { <<"f">> }

Unset == <<"Unset">>

InitDisk ==
    /\ roots \in RootSeqs
    /\ tree \in SUBSET ((1..Len(roots)) \X Rels)
    /\ project_roots = RootsArg(roots)
    /\ disk = DiskOf(roots, tree, 0)
    /\ file_path \in Refs
    /\ original = None

InitDiff ==
    /\ sections \in SectionSeqs
    /\ tail \in Tails
    /\ diff_text = DiffOf(sections, tail)
    /\ passes = 0
    /\ changed_files = None

IdleDiff ==
    /\ sections = <<>>
    /\ tail = <<>>
    /\ project_name = <<>>
    /\ diff_text = <<>>
    /\ passes = 0
    /\ changed_files = None

IdleDisk ==
    /\ roots = <<>>
    /\ tree = {}
    /\ project_roots = <<>>
    /\ disk = NoDisk
    /\ file_path = None
    /\ original = None

\* no script runs: a function is applied to drawn inputs
IdleRun ==
    /\ stage = "none"
    /\ config = TRUE
    /\ diff_file = NoFile
    /\ results_dir = NoDir
    /\ diffs_arg = <<>>
    /\ names_arg = <<>>
    /\ reply = "ok"
    /\ out_before = NoFile
    /\ pc = "idle"
    /\ exit = ""
    /\ log = <<>>
    /\ requests = 0
    /\ prompt = None
    /\ completion = Unset
    /\ out_file = NoFile

(***************************************************************************)
(* The functions applied to drawn inputs                                    *)
(***************************************************************************)

\* merge_diffs.py: prefixed = add_project_prefix(diff_text, project_name),
\* applied again to its own result
Prefix ==
    /\ passes < MaxPasses
    /\ diff_text' = add_project_prefix(diff_text, project_name)
    /\ passes' = passes + 1
    /\ UNCHANGED <<inputs, runVars, changed_files, file_path, original>>

InitPrefix == InitDiff /\ project_name \in Projects /\ IdleDisk /\ IdleRun
NextPrefix == Prefix
SpecPrefix == InitPrefix /\ [][NextPrefix]_vars

\* extract_mr_context.py: changed_files = extract_changed_files(diff_text)
ExtractChangedFiles ==
    /\ changed_files = None
    /\ changed_files' = extract_changed_files(diff_text)
    /\ UNCHANGED <<inputs, runVars, diff_text, passes, file_path, original>>

InitFiles == InitDiff /\ project_name = <<>> /\ IdleDisk /\ IdleRun
NextFiles == ExtractChangedFiles
SpecFiles == InitFiles /\ [][NextFiles]_vars

\* review_chunk.py: original = load_original(args.projects, file_path)
LoadOriginal ==
    /\ original = None
    /\ file_path # None
    /\ original' = load_original(project_roots, file_path, disk)
    /\ UNCHANGED <<inputs, runVars, diff_text, passes, changed_files, file_path>>

InitResolve == IdleDiff /\ InitDisk /\ IdleRun
NextResolve == LoadOriginal
SpecResolve == InitResolve /\ [][NextResolve]_vars

\* merge_diffs.py: prefixed = add_project_prefix(diff_text, project_name),
\* once, as merge_diffs applies it to each diff
PrefixOnce == passes = 0 /\ Prefix

\* review_chunk.py: file_path = extract_file_from_diff(diff_text), on the
\* prefixed diff
ExtractFileFromDiff ==
    /\ passes = 1
    /\ file_path = None
    /\ file_path' = extract_file_from_diff(diff_text)
    /\ UNCHANGED <<inputs, runVars, diff_text, passes, changed_files, original>>

\* a diff of one or two changed files, a project name, and one to MaxRoots
\* roots with any of the files f, d/f and "a b/a" under each
InitRoundTrip ==
    /\ \E p \in Paths \ { <<"f","2">> } :
           sections \in { << <<p, p>> >>,
                          << <<p, p>>, << <<"f","2">>, <<"f","2">> >> >> }
    /\ tail = <<>>
    /\ diff_text = DiffOf(sections, tail)
    /\ project_name \in Projects
    /\ passes = 0
    /\ changed_files = None
    /\ roots \in { rs \in RootSeqs : \A i \in 1..Len(rs) : ~rs[i].slash }
    /\ tree \in SUBSET ((1..Len(roots)) \X (Paths \ { <<"f","2">> }))
    /\ project_roots = RootsArg(roots)
    /\ disk = DiskOf(roots, tree, 0)
    /\ file_path = None
    /\ original = None
    /\ IdleRun

NextRoundTrip == PrefixOnce \/ ExtractFileFromDiff \/ LoadOriginal
SpecRoundTrip == InitRoundTrip /\ [][NextRoundTrip]_vars

(***************************************************************************)
(* The scripts.  Each runs alone, from the import of the module (where the  *)
(* configuration file is opened) to the return of main() or an exception    *)
(* that leaves it.  The log holds the records of the run in order, without  *)
(* the "Trying" record of each root load_original tries.  The locals        *)
(* diff_text and original of main, as they are when the prompt is built,    *)
(* are the fields diff and original of prompt.                              *)
(***************************************************************************)

Info(message) == <<"INFO", message>>
Warning(message) == <<"WARNING", message>>
Error(message) == <<"ERROR", message>>

\* the text of a successful completion, and the old content of an output
COMPLETION == <<"L","G","T","M">>
OLD == <<"o","l","d">>

\* what the endpoint does: it answers with a completion ("ok"), the request
\* times out, it answers with a non-2xx status, the connection fails, the
\* body is not the expected JSON ("malformed"), or the content is null
Replies == {"ok", "timeout", "status", "connection", "malformed", "null"}

\* requests.post(...) or r.raise_for_status() raises
RequestFails == reply \in {"timeout", "status", "connection"}

ErrorOf(r) ==
    CASE r = "timeout" -> "Timeout"
      [] r = "status" -> "HTTPError"
      [] r = "connection" -> "ConnectionError"
      [] OTHER -> "KeyError"

\* the import with built-in defaults for a missing configuration file
LoadConfig_defaults ==
    /\ pc = "import"
    /\ pc' = "main" /\ exit' = exit
    /\ UNCHANGED <<inputs, log, requests, prompt, completion, out_file, locals>>

\* with open(config_path) as f, at the import of every script
LoadConfig ==
    /\ pc = "import"
    /\ IF config
       THEN pc' = "main" /\ exit' = exit
       ELSE pc' = "raised" /\ exit' = "FileNotFoundError"
    /\ UNCHANGED <<inputs, log, requests, prompt, completion, out_file, locals>>

\* call_llm of review_chunk.py and summarize_reviews.py, after its
\* "REQUEST START" record: no try around the request
call_llm(finish) ==
    /\ requests' = requests + 1
    /\ IF RequestFails
       THEN /\ pc' = "raised" /\ exit' = ErrorOf(reply)
            /\ UNCHANGED <<log, completion>>
       ELSE IF reply = "malformed"
       THEN /\ pc' = "raised" /\ exit' = ErrorOf(reply)
            /\ log' = log \o <<Info(finish)>>
            /\ UNCHANGED completion
       ELSE /\ pc' = "write" /\ exit' = exit
            /\ log' = log \o <<Info(finish)>>
            /\ completion' = IF reply = "null" THEN None ELSE COMPLETION

\* the write that skips a completion that is not a str and returns
WriteOutput_skip(records) ==
    IF completion = None
    THEN /\ pc' = "done" /\ exit' = "None"
         /\ UNCHANGED <<out_file, log>>
    ELSE /\ out_file' = completion
         /\ log' = log \o records
         /\ pc' = "done" /\ exit' = "None"

\* <output path>.write_text(<completion>) and the records after it;
\* write_text raises TypeError, before it opens the file, for a completion
\* that is not a str
WriteOutput(records) ==
    IF completion = None
    THEN /\ pc' = "raised" /\ exit' = "TypeError"
         /\ UNCHANGED <<out_file, log>>
    ELSE /\ out_file' = completion
         /\ log' = log \o records
         /\ pc' = "done" /\ exit' = "None"

(*************************** extract_mr_context.py *************************)

\* main up to the request: the diff is read, counted, truncated and put
\* into the prompt
ExtractMain ==
    /\ stage = "extract" /\ pc = "main"
    /\ LET started == log \o <<Info("MR_CONTEXT EXTRACTION START")>>
       IN  IF diff_file = NoFile
           THEN /\ log' = started \o <<Error("DIFF FILE NOT FOUND")>>
                /\ pc' = "done" /\ exit' = "None"
                /\ UNCHANGED <<prompt, changed_files>>
           ELSE /\ changed_files' = extract_changed_files(Text(diff_file))
                /\ prompt' = [diff |-> Pages(TruncateDiff(Text(diff_file))),
                              file_count |-> Len(changed_files')]
                /\ log' = started
                     \o <<Info("DIFF LOADED"),
                          <<"INFO", "FILES CHANGED", Len(changed_files')>>,
                          Info("FILES")>>
                     \o (IF Len(Text(diff_file)) > MAX_DIFF_CHARS
                         THEN <<Warning("DIFF TOO LARGE")>> ELSE <<>>)
                     \o <<Info("PROMPT SIZE"),
                          Info("MR_CONTEXT LLM REQUEST START")>>
                /\ pc' = "call" /\ exit' = exit
    /\ UNCHANGED <<inputs, requests, completion, out_file, diff_text, passes,
                   file_path, original>>

\* call_llm: the request inside try, then r.json()
ExtractCall ==
    /\ stage = "extract" /\ pc = "call"
    /\ requests' = requests + 1
    /\ IF RequestFails
       THEN /\ pc' = "except"
            /\ UNCHANGED <<exit, log, completion>>
       ELSE IF reply = "malformed"
       THEN /\ pc' = "raised" /\ exit' = ErrorOf(reply)
            /\ log' = log \o <<Info("MR_CONTEXT LLM REQUEST FINISH")>>
            /\ UNCHANGED completion
       ELSE /\ pc' = "write" /\ exit' = exit
            /\ log' = log \o <<Info("MR_CONTEXT LLM REQUEST FINISH")>>
            /\ completion' = IF reply = "null" THEN None ELSE COMPLETION
    /\ UNCHANGED <<inputs, prompt, out_file, locals>>

\* variant: the handler sends the request once more before it gives up
ExtractExcept_retry ==
    /\ stage = "extract" /\ pc = "except"
    /\ log' = log \o <<Error("LLM REQUEST FAILED")>>
    /\ IF requests < 2
       THEN pc' = "call" /\ exit' = exit
       ELSE pc' = "raised" /\ exit' = ErrorOf(reply)
    /\ UNCHANGED <<inputs, requests, prompt, completion, out_file, locals>>

\* call_llm: except Exception as e: log.error(...); raise
ExtractExcept ==
    /\ stage = "extract" /\ pc = "except"
    /\ log' = log \o <<Error("LLM REQUEST FAILED")>>
    /\ pc' = "raised" /\ exit' = ErrorOf(reply)
    /\ UNCHANGED <<inputs, requests, prompt, completion, out_file, locals>>

\* main: MR_CONTEXT_FILE.write_text(context)
ExtractWrite ==
    /\ stage = "extract" /\ pc = "write"
    /\ WriteOutput(<<Info("MR_CONTEXT WRITTEN"),
                     Info("MR_CONTEXT EXTRACTION END")>>)
    /\ UNCHANGED <<inputs, requests, prompt, completion, locals>>

(****************************** review_chunk.py ****************************)

ContextRecord ==
    IF HasContext(results_dir) THEN Info("MR_CONTEXT LOADED")
    ELSE Warning("MR_CONTEXT FILE NOT FOUND")

\* the records of load_original
OriginalRecords(target, loaded) ==
    <<Info("Loading original file"), Info("Project roots")>>
        \o (IF Len(Split1(target)) = 2 /\ Len(Split(project_roots, ":")) > 1
            THEN <<Info("Multi-project mode")>> ELSE <<>>)
        \o (IF loaded = IndexError THEN <<>>
            ELSE IF loaded = NotFound(target)
            THEN <<Warning("ORIGINAL FILE NOT FOUND")>>
            ELSE <<Info("FOUND")>>)

\* main up to the request: the chunk is read, the original file resolved
\* and truncated, the prompt built
ReviewMain ==
    /\ stage = "review" /\ pc = "main"
    /\ LET started == log \o <<Info("START"), Info("Projects"), ContextRecord>>
           target == extract_file_from_diff(Text(diff_file))
           resolve == target # None /\ target # <<>>
           loaded == IF resolve
                     THEN load_original(project_roots, target, disk) ELSE <<>>
           parsed == started \o <<Info("DIFF FILE PARSED")>>
                         \o (IF resolve THEN OriginalRecords(target, loaded)
                             ELSE <<>>)
       IN  IF diff_file = NoFile
           THEN /\ pc' = "raised" /\ exit' = "FileNotFoundError"
                /\ log' = started
                /\ UNCHANGED <<prompt, file_path>>
           ELSE IF loaded = IndexError
           THEN /\ pc' = "raised" /\ exit' = "IndexError"
                /\ log' = parsed
                /\ file_path' = target
                /\ UNCHANGED prompt
           ELSE /\ file_path' = target
                /\ prompt' = [filename |-> target,
                              original |-> Pages(TruncateOriginal(loaded)),
                              diff |-> Pages(Text(diff_file)),
                              mr_context |->
                                  Pages(load_mr_context(results_dir,
                                                        NO_CONTEXT_REVIEW))]
                /\ log' = parsed
                     \o (IF resolve THEN <<Info("ORIGINAL SIZE")>> ELSE <<>>)
                     \o (IF Len(loaded) > MAX_ORIGINAL_SIZE
                         THEN <<Warning("ORIGINAL FILE TOO LARGE"),
                                Info("TRUNCATED TO")>>
                         ELSE <<>>)
                     \o <<Info("PROMPT SIZE"), Info("LLM REQUEST START")>>
                /\ pc' = "call" /\ exit' = exit
    /\ UNCHANGED <<inputs, requests, completion, out_file, diff_text, passes,
                   changed_files, original>>

ReviewCall ==
    /\ stage = "review" /\ pc = "call"
    /\ call_llm("LLM REQUEST FINISH")
    /\ UNCHANGED <<inputs, prompt, out_file, locals>>

\* main: Path(args.out).write_text(result)
ReviewWrite ==
    /\ stage = "review" /\ pc = "write"
    /\ WriteOutput(<<Info("WRITE RESULT"), Info("END")>>)
    /\ UNCHANGED <<inputs, requests, prompt, completion, locals>>

(*************************** summarize_reviews.py **************************)

\* main up to the request: the reviews are read in sorted order, joined,
\* truncated and put into the prompt
SummarizeMain ==
    /\ stage = "summarize" /\ pc = "main"
    /\ LET started == log \o <<Info("SUMMARY START"), Info("Output file"),
                               Info("SUMMARY START"), ContextRecord>>
           reviews == Reviews(results_dir)
           all_reviews == Join(reviews)
       IN  IF ~results_dir.exists
           THEN /\ log' = started \o <<Error("RESULTS DIR NOT FOUND")>>
                /\ pc' = "done" /\ exit' = "None"
                /\ UNCHANGED prompt
           ELSE IF Len(reviews) = 0
           THEN /\ log' = started \o <<Warning("NO REVIEW FILES FOUND")>>
                /\ pc' = "done" /\ exit' = "None"
                /\ UNCHANGED prompt
           ELSE /\ prompt' = [reviews |-> Pages(TruncateReviews(all_reviews)),
                              mr_context |->
                                  Pages(load_mr_context(results_dir,
                                                        NO_CONTEXT_SUMMARY)),
                              files_count |-> Len(reviews)]
                /\ log' = started
                     \o << <<"INFO", "LOADED REVIEWS", Len(reviews)>> >>
                     \o (IF Len(all_reviews) > MAX_CHARS
                         THEN <<Warning("REVIEWS TOO LARGE")>> ELSE <<>>)
                     \o <<Info("SUMMARY PROMPT SIZE"),
                          Info("SUMMARY LLM REQUEST START")>>
                /\ pc' = "call" /\ exit' = exit
    /\ UNCHANGED <<inputs, requests, completion, out_file, locals>>

SummarizeCall ==
    /\ stage = "summarize" /\ pc = "call"
    /\ call_llm("SUMMARY LLM REQUEST FINISH")
    /\ UNCHANGED <<inputs, prompt, out_file, locals>>

\* main: OUT_FILE.write_text(summary)
SummarizeWrite ==
    /\ stage = "summarize" /\ pc = "write"
    /\ WriteOutput(<<Info("SUMMARY WRITTEN"), Info("SUMMARY END")>>)
    /\ UNCHANGED <<inputs, requests, prompt, completion, locals>>

(******************************* merge_diffs.py ****************************)

\* main without the "Validate" step
MergeMain_unchecked ==
    /\ stage = "merge" /\ pc = "main"
    /\ log' = log \o <<Info("MERGE_DIFFS START"), Info("Input diffs"),
                       Info("Project names")>>
    /\ pc' = "merge" /\ exit' = exit
    /\ UNCHANGED <<inputs, requests, prompt, completion, out_file, locals>>

\* main: the "Validate" step
MergeMain ==
    /\ stage = "merge" /\ pc = "main"
    /\ LET started == log \o <<Info("MERGE_DIFFS START"), Info("Input diffs"),
                               Info("Project names")>>
       IN  IF Len(diffs_arg) # Len(names_arg)
           THEN /\ log' = started \o <<Error("Mismatch")>>
                /\ pc' = "done" /\ exit' = "1"
           ELSE /\ log' = started
                /\ pc' = "merge" /\ exit' = exit
    /\ UNCHANGED <<inputs, requests, prompt, completion, out_file, locals>>

\* the records of merge_diffs for the first n diffs
LoadedRecords(n) ==
    Flatten([k \in 1..n |-> <<Info("Loaded"), Info("Adding prefix")>>])

\* main: the "Merge" step, merge_diffs and output_path.write_text(merged)
\* inside try; except Exception logs and raises again
MergeDiffs ==
    /\ stage = "merge" /\ pc = "merge"
    /\ LET missing == FirstMissing(diffs_arg, names_arg)
           merging == log \o <<Info("Merging")>>
       IN  IF missing # 0
           THEN /\ log' = merging \o LoadedRecords(missing - 1)
                     \o <<Error("Diff file not found"),
                          Error("MERGE_DIFFS FAILED")>>
                /\ pc' = "raised" /\ exit' = "FileNotFoundError"
                /\ UNCHANGED out_file
           ELSE /\ out_file' = merge_diffs(diffs_arg, names_arg)
                /\ log' = merging \o LoadedRecords(Len(diffs_arg))
                     \o <<Info("Merged total size"),
                          Info("MERGE_DIFFS SUCCESS"), Info("MERGE_DIFFS END")>>
                /\ pc' = "done" /\ exit' = "0"
    /\ UNCHANGED <<inputs, requests, prompt, completion, locals>>

(***************************************************************************)
(* The runs: each script started once on drawn inputs                       *)
(***************************************************************************)
MaxOver == 2
MaxDiffs == 2

\* text followed by filler up to n characters in all
PadTo(text, n) == text \o Pad(n - Len(text))

\* lengths around a limit: limit - 1 .. limit + MaxOver
Around(limit) == { limit - 1 + k : k \in 0..(MaxOver + 1) }

StartRun ==
    /\ pc = "import"
    /\ exit = ""
    /\ log = <<>>
    /\ requests = 0
    /\ prompt = None
    /\ completion = Unset
    /\ out_file = out_before
    /\ diff_text = <<>>
    /\ passes = 0
    /\ changed_files = None
    /\ file_path = None
    /\ original = None

NoMerge == diffs_arg = <<>> /\ names_arg = <<>> /\ project_name = <<>>

NoRoots ==
    /\ roots = <<>>
    /\ tree = {}
    /\ project_roots = <<>>
    /\ disk = NoDisk

\* the environment of a run with short inputs, and the one of a run with
\* a long input
AnyEnv ==
    /\ config \in BOOLEAN
    /\ reply \in Replies
    /\ out_before \in {NoFile, OLD}

FewEnv ==
    /\ config = TRUE
    /\ reply \in {"ok", "timeout"}
    /\ out_before = OLD

InitExtract ==
    /\ stage = "extract"
    /\ tail = <<>>
    /\ \/ /\ sections \in { q \in SectionSeqs : Len(q) <= 1 }
          /\ diff_file \in {NoFile, Pages(DiffOf(sections, tail))}
          /\ AnyEnv
       \/ /\ sections = << <<(<<"f">>), (<<"f">>)>> >>
          /\ diff_file \in { Pages(PadTo(DiffOf(sections, tail), n)) :
                               n \in Around(MAX_DIFF_CHARS) }
          /\ FewEnv
    /\ results_dir = NoDir
    /\ NoMerge /\ NoRoots /\ StartRun

\* the files a results directory may hold
DirNames ==
    { <<"b",".","m","d">>, <<"a","2",".","m","d">>, <<"B",".","m","d">>,
      <<"n",".","t","x","t">>, MR_CONTEXT_NAME }

ReviewText(name) == <<"r",":">> \o name

\* the directory holding `names`, the file `big` being n characters longer
DirOf(names, big, n) ==
    [exists |-> TRUE,
     files |-> [name \in names |->
                  Pages(ReviewText(name)
                            \o (IF name = big THEN Pad(n) ELSE <<>>))]]

\* the chunk of one changed file, or one without a header
ChunkSections == { <<>> } \cup { << <<ref, ref>> >> : ref \in Refs }

RunRoots == { rs \in RootSeqs : \A i \in 1..Len(rs) : ~rs[i].slash }

P_F == <<"p","/","f">>

InitReview ==
    /\ stage = "review"
    /\ tail = <<>>
    /\ \/ /\ sections \in ChunkSections
          /\ diff_file \in {NoFile, Pages(DiffOf(sections, tail))}
          /\ roots = << [name |-> <<"p">>, slash |-> FALSE] >>
          /\ tree \in SUBSET ({1} \X Rels)
          /\ disk = DiskOf(roots, tree, 0)
          /\ results_dir \in {NoDir, DirOf({MR_CONTEXT_NAME}, <<>>, 0)}
          /\ AnyEnv
       \/ /\ sections \in ChunkSections
          /\ diff_file = Pages(DiffOf(sections, tail))
          /\ roots \in RunRoots
          /\ tree \in SUBSET ((1..Len(roots)) \X Rels)
          /\ disk = DiskOf(roots, tree, 0)
          /\ results_dir = NoDir
          /\ config = TRUE /\ reply = "ok" /\ out_before = OLD
       \/ /\ sections = << <<P_F, P_F>> >>
          /\ diff_file = Pages(DiffOf(sections, tail))
          /\ roots = << [name |-> <<"p">>, slash |-> FALSE] >>
          /\ tree = { <<1, <<"f">> >> }
          /\ disk \in { DiskOf(roots, tree, n - Len(Content(1, <<"f">>))) :
                          n \in Around(MAX_ORIGINAL_SIZE) }
          /\ results_dir = NoDir
          /\ FewEnv
       \/ /\ sections = << <<P_F, P_F>> >>
          /\ diff_file \in { Pages(PadTo(DiffOf(sections, tail), n)) :
                               n \in Around(MAX_DIFF_CHARS) }
          /\ roots = << [name |-> <<"p">>, slash |-> FALSE] >>
          /\ tree = { <<1, <<"f">> >> }
          /\ disk = DiskOf(roots, tree, 0)
          /\ results_dir = NoDir
          /\ FewEnv
    /\ project_roots = RootsArg(roots)
    /\ NoMerge /\ StartRun

A2_MD == <<"a","2",".","m","d">>
B_MD == <<"b",".","m","d">>

InitSummarize ==
    /\ stage = "summarize"
    /\ \/ /\ results_dir \in {NoDir} \cup
                 { DirOf(names, <<>>, 0) : names \in SUBSET DirNames }
          /\ AnyEnv
       \/ /\ results_dir \in
                 { DirOf({A2_MD, B_MD}, A2_MD,
                         n - Len(Join(Reviews(DirOf({A2_MD, B_MD}, A2_MD, 0))))) :
                     n \in Around(MAX_CHARS) }
          /\ FewEnv
    /\ sections = <<>> /\ tail = <<>>
    /\ diff_file = NoFile
    /\ NoMerge /\ NoRoots /\ StartRun

MergeInputs ==
    { NoFile, DiffOf(<< <<(<<"f">>), (<<"f">>)>> >>, <<>>),
      DiffOf(<< <<(<<"f">>), (<<"f","2">>)>> >>, <<>>) }

InitMerge ==
    /\ stage = "merge"
    /\ diffs_arg \in UNION { [1..n -> MergeInputs] : n \in 1..MaxDiffs }
    /\ names_arg \in UNION { [1..n -> Projects] : n \in 1..MaxDiffs }
    /\ project_name = <<>>
    /\ config \in BOOLEAN
    /\ reply = "ok"
    /\ out_before \in {NoFile, OLD}
    /\ sections = <<>> /\ tail = <<>>
    /\ diff_file = NoFile
    /\ results_dir = NoDir
    /\ NoRoots /\ StartRun

Init == InitExtract \/ InitReview \/ InitSummarize \/ InitMerge

Next ==
    \/ LoadConfig
    \/ ExtractMain \/ ExtractCall \/ ExtractExcept \/ ExtractWrite
    \/ ReviewMain \/ ReviewCall \/ ReviewWrite
    \/ SummarizeMain \/ SummarizeCall \/ SummarizeWrite
    \/ MergeMain \/ MergeDiffs

Spec == Init /\ [][Next]_vars

(***************************************************************************)
(* Properties of add_project_prefix (SpecPrefix)                            *)
(***************************************************************************)

\* x holds no " b/"
Plain(x) == \A i \in 1..Len(x) : ~StartsWithAt(x, i, SP_B)

IsPrefix(a, b) == StartsWithAt(b, 1, a)

Prefixed(x) == project_name \o SLASH \o x

\* line n of section k of the current diff text
OutLine(k, n) == Lines(diff_text)[LineOf(k, n)]

APath(k) == sections[k][1]
BPath(k) == sections[k][2]

\* C4 as stated: after two applications with the same project name, a header
\* whose a and b paths are identical still reads
\* "diff --git a/P/<path> b/P/<path>" (the rewrite is idempotent on headers).
C4_IdempotentOnHeaders ==
    passes = 2 =>
        \A k \in 1..Len(sections) :
            APath(k) = BPath(k) =>
                OutLine(k, 1) = Header(Prefixed(APath(k)), Prefixed(APath(k)))

\* C4 amended: the rewrite is not idempotent on headers.  After two
\* applications with the same project name P, a header whose a and b paths
\* are identical (P/<path> holding no " b/") reads
\* "diff --git a/P/P/<path> b/P/P/<path>".
C4_SecondPassPrefixesAgain ==
    passes = 2 =>
        \A k \in 1..Len(sections) :
            (APath(k) = BPath(k) /\ Plain(Prefixed(APath(k)))) =>
                OutLine(k, 1) = Header(Prefixed(Prefixed(APath(k))),
                                       Prefixed(Prefixed(APath(k))))

C4_Witness ==
    /\ passes = 2
    /\ \E k \in 1..Len(sections) :
           APath(k) = BPath(k) /\ Plain(Prefixed(APath(k)))

C7_OnePathPerHeader ==
    changed_files # None =>
        /\ Len(changed_files) = Len(sections)
        /\ \A k \in 1..Len(sections) : changed_files[k] = APath(k)

\* C7 amended: extract_changed_files returns exactly N strings, one per
\* header line in document order, without deduplication; each equals the
\* header's a path when that path holds no " b/" (the lazy group ends at the
\* first " b/" of the line).
C7_OnePlainPathPerHeader ==
    changed_files # None =>
        /\ Len(changed_files) = Len(sections)
        /\ \A k \in 1..Len(sections) :
               Plain(APath(k)) => changed_files[k] = APath(k)

C7_Witness ==
    /\ changed_files # None
    /\ Len(sections) = 2
    /\ APath(1) = APath(2) /\ Plain(APath(1))
    /\ tail # <<>>
    /\ Len(changed_files) = 2

(***************************************************************************)
(* Properties of load_original (SpecResolve)                                *)
(***************************************************************************)

\* the roots named pre under which the file rel exists
RootsHolding(pre, rel) ==
    {i \in 1..Len(roots) : roots[i].name = pre /\ <<i, rel>> \in tree}

\* C8: with more than one root and a reference <prefix>/<remainder>,
\* load_original returns the content of <root>/<remainder> only for a root
\* whose last path component is the prefix; when no such root holds the file
\* it returns the not-found marker, also when another root holds it.
C8_NoCrossRootFallback ==
    (original # None /\ Len(roots) > 1) =>
        \A pre \in RefPrefixes, rel \in Rels :
            file_path = pre \o SLASH \o rel =>
                IF RootsHolding(pre, rel) = {}
                THEN original = NotFound(file_path)
                ELSE \E i \in RootsHolding(pre, rel) : original = Content(i, rel)

C8_Witness ==
    /\ original = NotFound(file_path)
    /\ Len(roots) > 1
    /\ \E pre \in RefPrefixes, rel \in Rels :
           /\ file_path = pre \o SLASH \o rel
           /\ \E i \in 1..Len(roots) : roots[i].name = pre
           /\ RootsHolding(pre, rel) = {}
           /\ \E i \in 1..Len(roots) : <<i, rel>> \in tree

(***************************************************************************)
(* Properties of the runs (Spec)                                            *)
(***************************************************************************)

ModelStages == {"extract", "review", "summarize"}

\* the run has sent its request and the request failed
RequestFailed == requests > 0 /\ RequestFails

\* the run has sent its request and the body of the answer was malformed
ResponseMalformed == requests > 0 /\ reply = "malformed"

\* the output path holds something the run wrote
Written == out_file # out_before

Logged(record) == \E k \in 1..Len(log) : log[k] = record

\* some record of level ERROR is in the log
ErrorLogged == \E k \in 1..Len(log) : log[k][1] = "ERROR"

\* the run has built its prompt
PromptBuilt == pc = "call" \/ requests > 0

\* C1: in the three stages that call the model, the output is written only
\* after the completion request has returned successfully.  A run whose
\* configuration file is missing, or whose request fails (timeout, non-2xx
\* status, transport error) or is answered with a malformed body, never
\* returns from main and never writes its output path: whatever the path
\* held before the run is still there, and once the error has left the
\* handler the run has raised.
C1_OutputOnlyAfterSuccess ==
    stage \in ModelStages =>
        /\ Written => (config /\ requests = 1 /\ reply = "ok" /\ pc = "done")
        /\ ~config => (pc \in {"import", "raised"} /\ out_file = out_before)
        /\ RequestFailed => (pc \in {"except", "raised"} /\ out_file = out_before)
        /\ ResponseMalformed => (pc = "raised" /\ out_file = out_before)

C1_Witness ==
    /\ stage = "review"
    /\ RequestFailed /\ reply = "status"
    /\ pc = "raised"
    /\ out_before = OLD /\ out_file = OLD

\* C2 as stated: no run of a stage returns normally without having written
\* its output.
C2_SuccessOrRaise ==
    pc = "done" => Written

\* the results directory holds no review: no *.md file but mr_context.md
NoReviewFiles ==
    \A name \in DOMAIN results_dir.files :
        IsMd(name) => name = MR_CONTEXT_NAME

\* the logged early returns of main
EarlyReturn ==
    \/ /\ stage = "extract" /\ diff_file = NoFile
       /\ Logged(Error("DIFF FILE NOT FOUND")) /\ exit = "None"
    \/ /\ stage = "summarize" /\ ~results_dir.exists
       /\ Logged(Error("RESULTS DIR NOT FOUND")) /\ exit = "None"
    \/ /\ stage = "summarize" /\ results_dir.exists /\ NoReviewFiles
       /\ Logged(Warning("NO REVIEW FILES FOUND")) /\ exit = "None"
    \/ /\ stage = "merge" /\ Len(diffs_arg) # Len(names_arg)
       /\ Logged(Error("Mismatch")) /\ exit = "1"

\* C2 amended: a run ends in one of three ways.  It succeeds and has written
\* its output; or it raises, and has written nothing; or it returns early,
\* having logged why and written nothing: context extraction when the diff
\* file is missing, summarization when the results directory is missing or
\* holds no review, the merge (with exit status 1) when the lists of diffs
\* and project names differ in length.
C2_SuccessRaiseOrEarlyReturn ==
    /\ pc = "done" => ((Written /\ ~EarlyReturn) \/ (~Written /\ EarlyReturn))
    /\ pc = "raised" => ~Written

C2_Witness ==
    /\ pc = "done"
    /\ stage = "summarize"
    /\ results_dir.exists /\ NoReviewFiles
    /\ MR_CONTEXT_NAME \in DOMAIN results_dir.files
    /\ out_before = OLD /\ out_file = OLD

\* C3 as stated: in every stage that calls the model, a failed request
\* (timeout, non-2xx status, connection failure) is logged as an error
\* before it ends the run.
C3_FailureLoggedBeforeRaise ==
    (stage \in ModelStages /\ pc = "raised" /\ RequestFailed) => ErrorLogged

\* the original text of the per-file review before its truncation: "" for a
\* chunk that names no file, else what load_original returns
Resolved ==
    IF file_path = None \/ file_path = <<>> THEN <<>>
    ELSE load_original(project_roots, file_path, disk)

\* C9: the original text the per-file review puts into its prompt.  A text t
\* of more than 50,000 characters becomes the first 5,000 characters of t,
\* the marker, and the last 45,000 characters of t; a text of at most 50,000
\* characters, exactly 50,000 included, is put in unchanged.
C9_OriginalTruncation ==
    (stage = "review" /\ PromptBuilt) =>
        LET t == Resolved
            placed == Text(prompt.original)
            marked == 5000 + Len(TRUNCATION_MARKER)
        IN  IF Len(t) > 50000
            THEN /\ Len(placed) = marked + 45000
                 /\ \A i \in 1..5000 : placed[i] = t[i]
                 /\ \A i \in 1..Len(TRUNCATION_MARKER) :
                        placed[5000 + i] = TRUNCATION_MARKER[i]
                 /\ \A i \in 1..45000 :
                        placed[marked + i] = t[Len(t) - 45000 + i]
            ELSE placed = t

C9_Witness ==
    /\ stage = "review" /\ PromptBuilt
    /\ Len(Resolved) = 50001
    /\ Len(Text(prompt.original)) = 50038

\* C10 as stated: in context extraction and in the per-file review, the diff
\* text put into the prompt is the text of the diff file when that has at
\* most 60,000 characters, and its first 60,000 characters otherwise.
C10_DiffTruncation ==
    (stage \in {"extract", "review"} /\ PromptBuilt) =>
        LET placed == Text(prompt.diff)
            t == Text(diff_file)
        IN  /\ Len(placed) <= 60000
            /\ IF Len(t) > 60000
               THEN /\ Len(placed) = 60000
                    /\ \A i \in 1..60000 : placed[i] = t[i]
               ELSE placed = t

\* the review text of a summarization run before its cap:
\* "\n".join(reviews)
AllReviews == Join(Reviews(results_dir))

\* C11: the review text the summarization puts into its prompt.  A text of
\* more than 250,000 characters is cut to its last 250,000 characters, so
\* that what is lost is the start of the text, the reviews that come first
\* in file name order; a text of at most 250,000 characters is put in
\* unchanged.
C11_ReviewsTruncation ==
    (stage = "summarize" /\ PromptBuilt) =>
        LET t == AllReviews
            placed == Text(prompt.reviews)
        IN  IF Len(t) > 250000
            THEN /\ Len(placed) = 250000
                 /\ \A i \in 1..250000 : placed[i] = t[Len(t) - 250000 + i]
            ELSE placed = t

C11_Witness ==
    /\ stage = "summarize" /\ PromptBuilt
    /\ Len(AllReviews) = 250001
    /\ Len(Text(prompt.reviews)) = 250000
    /\ Len(Reviews(results_dir)) = 2

\* the merge was started with lists of different lengths
Mismatched == stage = "merge" /\ Len(diffs_arg) # Len(names_arg)

\* C12: a merge run that reaches main (config.yml is there) with a different
\* number of diff files and project names never enters merge_diffs: no diff
\* is read and the output file is never written; the run ends by main
\* returning 1, not by an exception, and the mismatch is the last thing it
\* logged.
C12_MismatchReturnsOne ==
    (Mismatched /\ config) =>
        /\ pc \in {"import", "main", "done"}
        /\ out_file = out_before
        /\ ~Logged(Info("Merging")) /\ ~Logged(Info("Loaded"))
        /\ pc = "done" =>
               /\ exit = "1"
               /\ log[Len(log)] = Error("Mismatch")

C12_Witness ==
    /\ Mismatched /\ config
    /\ pc = "done" /\ exit = "1"
    /\ Len(diffs_arg) = 2 /\ Len(names_arg) = 1
    /\ \A k \in 1..2 : diffs_arg[k] # NoFile
    /\ out_before = OLD /\ out_file = OLD

\* C13 as stated: a missing file never ends a run with an exception.  A run
\* of context extraction, of the merge or of the per-file review whose diff
\* input is missing does not raise: it returns early, with the reason
\* logged.  A per-file review whose original file is missing goes on to the
\* completion call with the not-found marker as the original text.
C13_MissingFileNeverRaises ==
    LET diff_missing ==
            \/ stage \in {"extract", "review"} /\ diff_file = NoFile
            \/ /\ stage = "merge" /\ Len(diffs_arg) = Len(names_arg)
               /\ FirstMissing(diffs_arg, names_arg) # 0
    IN  /\ (config /\ diff_missing) =>
               /\ pc # "raised"
               /\ pc = "done" => (ErrorLogged /\ ~Written)
        /\ (stage = "review" /\ Logged(Warning("ORIGINAL FILE NOT FOUND"))) =>
               /\ PromptBuilt
               /\ Text(prompt.original)
                      = NOT_FOUND_OPEN \o file_path \o <<">">>

\* C13 amended: what a missing file does to a run that has reached main.
\* Context extraction with its diff file missing logs the error and returns
\* without a request and without output.  The merge, given as many diffs as
\* names, with one of the diffs missing logs the missing file and the
\* failure and ends with FileNotFoundError, the output path untouched.  The
\* per-file review with its chunk missing ends with FileNotFoundError, no
\* error logged, no request sent, no output.  A per-file review whose
\* original file is not found goes on to the completion call with the
\* not-found marker as the original text.
C13_MissingFileByStage ==
    LET ended == pc \in {"done", "raised"}
    IN  /\ (stage = "extract" /\ config /\ diff_file = NoFile /\ ended) =>
               /\ pc = "done" /\ exit = "None"
               /\ log[Len(log)] = Error("DIFF FILE NOT FOUND")
               /\ requests = 0 /\ ~Written
        /\ (/\ stage = "merge" /\ config /\ ended
            /\ Len(diffs_arg) = Len(names_arg)
            /\ FirstMissing(diffs_arg, names_arg) # 0) =>
               /\ pc = "raised" /\ exit = "FileNotFoundError"
               /\ Logged(Error("Diff file not found"))
               /\ log[Len(log)] = Error("MERGE_DIFFS FAILED")
               /\ ~Written
        /\ (stage = "review" /\ config /\ diff_file = NoFile /\ ended) =>
               /\ pc = "raised" /\ exit = "FileNotFoundError"
               /\ ~ErrorLogged
               /\ requests = 0 /\ ~Written
        /\ (stage = "review" /\ Logged(Warning("ORIGINAL FILE NOT FOUND"))) =>
               /\ PromptBuilt
               /\ Text(prompt.original)
                      = NOT_FOUND_OPEN \o file_path \o <<">">>

\* a merge of two diffs, the second missing, has ended
C13_Witness ==
    /\ stage = "merge" /\ pc = "raised"
    /\ Len(diffs_arg) = 2 /\ Len(names_arg) = 2
    /\ FirstMissing(diffs_arg, names_arg) = 2
    /\ Logged(Info("Loaded"))
    /\ out_before = OLD /\ out_file = OLD

\* C14: a run of a stage that calls the model sends at most one request to
\* the completion endpoint, whatever the answer: a failed request is never
\* followed by a second one.  A run that returns early (context extraction
\* without its diff file, summarization without its results directory or
\* without a review file in it) sends none.
C14_AtMostOneRequest ==
    stage \in ModelStages =>
        /\ requests <= 1
        /\ (pc = "raised" /\ RequestFailed) => requests = 1
        /\ (\/ stage = "extract" /\ diff_file = NoFile
            \/ stage = "summarize" /\ ~results_dir.exists
            \/ stage = "summarize" /\ NoReviewFiles) => requests = 0

\* a context extraction whose one request timed out has ended
C14_Witness ==
    /\ stage = "extract" /\ pc = "raised"
    /\ reply = "timeout" /\ requests = 1
    /\ Logged(Error("LLM REQUEST FAILED"))

C17_EachReviewOnceInOrder ==
    (/\ stage = "summarize" /\ PromptBuilt
     /\ ~Logged(Warning("REVIEWS TOO LARGE"))) =>
        LET text == Text(prompt.reviews)
            names == DOMAIN results_dir.files
            included == {n \in names : IsMd(n) /\ n # MR_CONTEXT_NAME}
            Heading(n) == FILE_OPEN \o n \o <<NL>>
            At(n) == {i \in 1..Len(text) : StartsWithAt(text, i, Heading(n))}
            Entry(n) == Text(results_dir.files[n]) \o <<NL>>
        IN  /\ \A n \in included :
                   /\ Cardinality(At(n)) = 1
                   /\ \A i \in At(n) :
                          SubSeq(text, i + Len(Heading(n)),
                                 i + Len(Heading(n)) + Len(Entry(n)) - 1)
                              = Entry(n)
            /\ \A n \in names \ included : At(n) = {}
            /\ \A n, m \in included :
                   Less(n, m) => \A i \in At(n), j \in At(m) : i < j
            /\ prompt.files_count = Cardinality(included)
            /\ Logged(<<"INFO", "LOADED REVIEWS", Cardinality(included)>>)

\* a directory holding b.md, a2.md, B.md, mr_context.md and n.txt has been
\* summarized
C17_Witness ==
    /\ stage = "summarize" /\ pc = "done" /\ Written
    /\ DOMAIN results_dir.files = DirNames
    /\ prompt.files_count = 3

(***************************************************************************)
(* Properties of the merge followed by the resolution (SpecRoundTrip)       *)
(***************************************************************************)

\* C18 as stated: the diff's first header being "diff --git a/p b/p", the
\* reference extract_file_from_diff reads from the prefixed diff is P/p, and
\* load_original returns for it the content of R/p whenever a root R named P
\* holds p, the roots being one or several with distinct names.
C18_RoundTrip ==
    LET p == sections[1][1]
        named == {i \in 1..Len(roots) : roots[i].name = project_name}
        distinct == \A i, j \in 1..Len(roots) :
                        roots[i].name = roots[j].name => i = j
    IN  /\ file_path # None => file_path = project_name \o SLASH \o p
        /\ (original # None /\ distinct) =>
               \A i \in named :
                   <<i, p>> \in tree => original = Content(i, p)

\* C18 amended: the same, for a project name P and a path p such that P/p
\* holds no " b/".
C18_RoundTripPlain ==
    LET p == sections[1][1]
        named == {i \in 1..Len(roots) : roots[i].name = project_name}
        distinct == \A i, j \in 1..Len(roots) :
                        roots[i].name = roots[j].name => i = j
    IN  Plain(project_name \o SLASH \o p) =>
            /\ file_path # None => file_path = project_name \o SLASH \o p
            /\ (original # None /\ distinct) =>
                   \A i \in named :
                       <<i, p>> \in tree => original = Content(i, p)

\* the file d/f of the project be, resolved with the roots /r1/p and /r2/be
\* that both hold d/f
C18_Witness ==
    /\ stage = "none" /\ passes = 1
    /\ sections[1][1] = <<"d","/","f">>
    /\ project_name = <<"b","e">>
    /\ file_path = <<"b","e","/","d","/","f">>
    /\ Len(roots) = 2 /\ roots[1].name = <<"p">> /\ roots[2].name = <<"b","e">>
    /\ {<<1, <<"d","/","f">> >>, <<2, <<"d","/","f">> >>} \subseteq tree
    /\ original = Content(2, <<"d","/","f">>)

====
